---- MODULE Spec2Model ----
(***************************************************************************)
(* Prompt-to-SVG pipeline of saas-boilerplate-wasp: the string passes      *)
(* (autoFixSvg, validateSvg, sanitizeSvg, fixTruncatedSvg,                 *)
(* generateSvgVariations), the LLM call (generateSvgs / callOpenRouterAPI) *)
(* and the rasterizer (convertToGif / convertSvgToGif) in the revisions    *)
(* the repository holds.                                                   *)
(*                                                                         *)
(* Strings are TLA+ strings, handled character by character.  Positions    *)
(* in the JavaScript-named helpers are 0-based, as in the source.          *)
(* The backtick cannot be written in a TLA+ string literal: the character  *)
(* "~" stands for it throughout (it occurs nowhere else in the model).     *)
(***************************************************************************)
EXTENDS Integers, Sequences, FiniteSets, TLC

VARIABLES
    \* one call of a string pass: the function, its argument, its result, and
    \* the result of the pass applied next to that result
    fn, arg, ret, called, ret2,
    \* one invocation of generateSvgs / callOpenRouterAPI
    gRev, gKey, gModel, gType, gPc, gResp, gBase, gSent, gLog,
    gFirst, gSecond, gSvgs, gResult, gError,
    \* one invocation of convertToGif / convertSvgToGif
    rRev, rSvg, rPc, rSanitized, rTempDir, rBrowser, rBrowserRef,
    rWritten, rLoaded, rFrames, rEncoded, rResult, rError,
    \* the TikTokAccount table, the next record id, the invocations of
    \* connectTikTokAccount / disconnectTikTokAccount in progress, the number
    \* of invocations, the state parameters getTikTokAuthUrl has returned
    tAccounts, tNextId, tProc, tStarted, tIssued,
    \* the clock, the stored tokens of each account, the TikTokPost table, one
    \* invocation of createTikTokPost, the requests it has sent, the number of
    \* invocations
    pNow, pTokens, pPosts, pProc, pSent, pStarted

fnVars == <<fn, arg, ret, called, ret2>>
gVars == <<gRev, gKey, gModel, gType, gPc, gResp, gBase, gSent, gLog,
           gFirst, gSecond, gSvgs, gResult, gError>>
rVars == <<rRev, rSvg, rPc, rSanitized, rTempDir, rBrowser, rBrowserRef,
           rWritten, rLoaded, rFrames, rEncoded, rResult, rError>>
tVars == <<tAccounts, tNextId, tProc, tStarted, tIssued>>
pVars == <<pNow, pTokens, pPosts, pProc, pSent, pStarted>>

vars == <<fnVars, gVars, rVars, tVars, pVars>>

-----------------------------------------------------------------------------
(* JavaScript String methods used by the source *)

\* Only({e(x) : x \in {v}}) is e(v) with v evaluated once: the way a result is
\* held in a local variable
Only(S) == CHOOSE x \in S : TRUE

Max2(a, b) == IF a >= b THEN a ELSE b
Min2(a, b) == IF a <= b THEN a ELSE b

\* s.substring(a, b): 0-based, end exclusive, arguments clamped to [0, length]
substring(s, a, b) ==
    IF a >= b \/ a >= Len(s) \/ b <= 0 THEN ""
    ELSE SubSeq(s, (IF a < 0 THEN 0 ELSE a) + 1, IF b > Len(s) THEN Len(s) ELSE b)

\* s.charAt(i), 0-based; "" outside the string
charAt(s, i) == IF i < 0 \/ i >= Len(s) THEN "" ELSE SubSeq(s, i + 1, i + 1)

\* p occurs in s at 0-based position i
occursAt(s, p, i) ==
    /\ i >= 0
    /\ i + Len(p) <= Len(s)
    /\ SubSeq(s, i + 1, i + Len(p)) = p

\* s.indexOf(p, from): first position >= from, or -1
indexOfFrom(s, p, from) ==
    IF \E k \in from..(Len(s) - Len(p)) : occursAt(s, p, k)
    THEN CHOOSE k \in from..(Len(s) - Len(p)) :
             /\ occursAt(s, p, k)
             /\ \A j \in from..(k - 1) : ~occursAt(s, p, j)
    ELSE -1

indexOf(s, p) == indexOfFrom(s, p, 0)

\* s.lastIndexOf(p): last position, or -1
lastIndexOf(s, p) ==
    IF \E k \in 0..(Len(s) - Len(p)) : occursAt(s, p, k)
    THEN CHOOSE k \in 0..(Len(s) - Len(p)) :
             /\ occursAt(s, p, k)
             /\ \A j \in (k + 1)..(Len(s) - Len(p)) : ~occursAt(s, p, j)
    ELSE -1

includes(s, p) == \E k \in 0..(Len(s) - Len(p)) : occursAt(s, p, k)
startsWith(s, p) == occursAt(s, p, 0)
endsWith(s, p) == occursAt(s, p, Len(s) - Len(p))

\* s with the Len(p) characters at i replaced by r
splice(s, i, p, r) ==
    substring(s, 0, i) \o r \o substring(s, i + Len(p), Len(s))

\* s.replace(p, r) with a string pattern: the first occurrence only
replaceFirst(s, p, r) ==
    IF includes(s, p)
    THEN Only({splice(s, i, p, r) : i \in {indexOf(s, p)}})
    ELSE s

\* s.replace(/p/g, r) for a literal p: every occurrence, left to right
RECURSIVE replaceAllFrom(_, _, _, _)
replaceAllFrom(s, p, r, from) ==
    Only({IF i < 0 THEN substring(s, from, Len(s))
          ELSE substring(s, from, i) \o r \o replaceAllFrom(s, p, r, i + Len(p))
          : i \in {indexOfFrom(s, p, from)}})

replaceAll(s, p, r) == replaceAllFrom(s, p, r, 0)

WhiteSpace == {" ", "\n", "\t", "\r"}

isSpaceAt(s, k) == charAt(s, k) \in WhiteSpace

\* s.trim()
trim(s) ==
    IF \A k \in 0..(Len(s) - 1) : isSpaceAt(s, k) THEN ""
    ELSE substring(s,
             CHOOSE k \in 0..(Len(s) - 1) :
                 ~isSpaceAt(s, k) /\ \A j \in 0..(k - 1) : isSpaceAt(s, j),
             1 + CHOOSE k \in 0..(Len(s) - 1) :
                 ~isSpaceAt(s, k) /\ \A j \in (k + 1)..(Len(s) - 1) : isSpaceAt(s, j))

UpperLetters == {"A", "B", "C", "D", "E", "F", "G", "H", "I", "J", "K", "L", "M",
                 "N", "O", "P", "Q", "R", "S", "T", "U", "V", "W", "X", "Y", "Z"}
LowerLetters == {"a", "b", "c", "d", "e", "f", "g", "h", "i", "j", "k", "l", "m",
                 "n", "o", "p", "q", "r", "s", "t", "u", "v", "w", "x", "y", "z"}
Digits == {"0", "1", "2", "3", "4", "5", "6", "7", "8", "9"}

\* the regular expression class \w
WordChars == UpperLetters \cup LowerLetters \cup Digits \cup {"_"}

isWordAt(s, k) == charAt(s, k) \in WordChars

lowerOf(c) ==
    CASE c = "A" -> "a" [] c = "B" -> "b" [] c = "C" -> "c" [] c = "D" -> "d"
      [] c = "E" -> "e" [] c = "F" -> "f" [] c = "G" -> "g" [] c = "H" -> "h"
      [] c = "I" -> "i" [] c = "J" -> "j" [] c = "K" -> "k" [] c = "L" -> "l"
      [] c = "M" -> "m" [] c = "N" -> "n" [] c = "O" -> "o" [] c = "P" -> "p"
      [] c = "Q" -> "q" [] c = "R" -> "r" [] c = "S" -> "s" [] c = "T" -> "t"
      [] c = "U" -> "u" [] c = "V" -> "v" [] c = "W" -> "w" [] c = "X" -> "x"
      [] c = "Y" -> "y" [] c = "Z" -> "z" [] OTHER -> c

\* p, written in lower case, occurs in s at position i in any letter case:
\* the matching of a regular expression with the flag i
occursAtCI(s, p, i) ==
    /\ i >= 0
    /\ i + Len(p) <= Len(s)
    /\ \A d \in 0..(Len(p) - 1) : lowerOf(charAt(s, i + d)) = charAt(p, d)

\* first position >= from where p occurs in any letter case, or -1
indexOfFromCI(s, p, from) ==
    IF \E k \in from..(Len(s) - Len(p)) : occursAtCI(s, p, k)
    THEN CHOOSE k \in from..(Len(s) - Len(p)) :
             /\ occursAtCI(s, p, k)
             /\ \A j \in from..(k - 1) : ~occursAtCI(s, p, j)
    ELSE -1

\* number of non-overlapping occurrences of p in s
RECURSIVE countFrom(_, _, _)
countFrom(s, p, from) ==
    Only({IF i < 0 THEN 0 ELSE 1 + countFrom(s, p, i + Len(p))
          : i \in {indexOfFrom(s, p, from)}})

count(s, p) == countFrom(s, p, 0)

-----------------------------------------------------------------------------
(* The string passes: image-processing.ts, and the same text in operations.ts *)
(* and in the earlier revision of operations.ts kept in unnamed/part_001      *)

XMLNS == "xmlns=\"http://www.w3.org/2000/svg\""

\* fixed.replace(/~~~svg/g, '').replace(/~~~/g, '')
removeFences(s) ==
    Only({replaceAll(t, "~~~", "") : t \in {replaceAll(s, "~~~svg", "")}})

\* fixed.replace(/^[\s\S]*?(<svg)/i, '$1'): drop what precedes the first
\* opening tag, in any letter case; the tag is kept as it was written
stripBeforeOpen(s) ==
    Only({IF i < 0 THEN s ELSE substring(s, i, Len(s))
          : i \in {indexOfFromCI(s, "<svg", 0)}})

\* fixed.replace(/<\/svg>[\s\S]*$/i, '</svg>'): the first closing tag, in any
\* letter case, and all that follows it become '</svg>'
stripAfterClose(s) ==
    Only({IF i < 0 THEN s ELSE substring(s, 0, i) \o "</svg>"
          : i \in {indexOfFromCI(s, "</svg>", 0)}})

\* end (exclusive) of the run of \w characters that starts at i
wordEnd(s, i) ==
    CHOOSE k \in i..Len(s) :
        /\ ~isWordAt(s, k)
        /\ \A j \in i..(k - 1) : isWordAt(s, j)

\* an '=' at q that stands between two \w characters
isAssignAt(s, q) ==
    charAt(s, q) = "=" /\ isWordAt(s, q - 1) /\ isWordAt(s, q + 1)

\* fixed.replace(/(\w+)=(\w+)/g, '$1="$2"'): scanning from i, the leftmost match
\* ends its first group at the first '=' after i that stands between two \w
\* characters; its second group is the whole run of \w after the '='
RECURSIVE quoteFrom(_, _)
quoteFrom(s, i) ==
    IF ~\E q \in (i + 1)..(Len(s) - 2) : isAssignAt(s, q)
    THEN substring(s, i, Len(s))
    ELSE Only({
           Only({substring(s, i, q) \o "=\"" \o substring(s, q + 1, m) \o "\""
                     \o quoteFrom(s, m)
                 : m \in {wordEnd(s, q + 1)}})
           : q \in {CHOOSE q \in (i + 1)..(Len(s) - 2) :
                       /\ isAssignAt(s, q)
                       /\ \A j \in (i + 1)..(q - 1) : ~isAssignAt(s, j)}})

quoteAttributes(s) == quoteFrom(s, 0)

WRAP_OPEN ==
    "<svg xmlns=\"http://www.w3.org/2000/svg\" viewBox=\"0 0 400 400\" width=\"400\" height=\"400\">"

\* "Fix unclosed SVG tag"
closeUnclosed(s) ==
    IF includes(s, "<svg") /\ ~includes(s, "</svg>") THEN s \o "</svg>" ELSE s

\* "Ensure proper SVG structure"
\* a normalizer whose test for the root element ignores the letter case
wrapIfNeeded_AnyCase(s) ==
    IF occursAtCI(s, "<svg", 0) THEN s ELSE WRAP_OPEN \o s \o "</svg>"

\* a normalizer that returns markup without a root element as it is
wrapIfNeeded_Skipped(s) == s

wrapIfNeeded(s) ==
    IF ~startsWith(s, "<svg") THEN WRAP_OPEN \o s \o "</svg>" ELSE s

autoFixSvg(svg) ==
    Only({wrapIfNeeded(f6) : f6 \in
      {quoteAttributes(f5) : f5 \in
        {closeUnclosed(f4) : f4 \in
          {stripAfterClose(f3) : f3 \in
            {stripBeforeOpen(f2) : f2 \in
              {removeFences(f1) : f1 \in {trim(svg)}}}}}}})

\* /<svg[^>]*>.*<\/svg>/s.test(s): an opening tag, the first '>' after it, and
\* a closing tag after that '>'
basicStructure(s) ==
    \E i \in 0..Len(s) :
        /\ occursAt(s, "<svg", i)
        /\ \E j \in (i + 4)..Len(s) :
              /\ charAt(s, j) = ">"
              /\ \A k \in (i + 4)..(j - 1) : charAt(s, k) # ">"
              /\ \E c \in (j + 1)..Len(s) : occursAt(s, "</svg>", c)

Verdict(ok, why) == [isValid |-> ok, error |-> why]

\* the checks validateSvg makes on the auto-fixed copy, in their order
checkFixed(autoFixed) ==
    IF ~includes(autoFixed, "<svg")
        THEN Verdict(FALSE, "Missing <svg> tag")
    ELSE IF ~includes(autoFixed, "</svg>")
        THEN Verdict(FALSE, "Missing closing </svg> tag")
    ELSE IF ~basicStructure(autoFixed)
        THEN Verdict(FALSE, "Invalid SVG structure")
    ELSE IF ~includes(autoFixed, XMLNS)
        THEN Verdict(FALSE, "Missing xmlns attribute")
    ELSE Verdict(TRUE, "")

\* a validator that checks the string it is given, without normalizing it
validateSvg_Given(svg) ==
    IF svg = "" THEN Verdict(FALSE, "SVG content is empty") ELSE checkFixed(svg)

validateSvg(svg) ==
    IF svg = "" THEN Verdict(FALSE, "SVG content is empty")
    ELSE Only({checkFixed(autoFixed) : autoFixed \in {autoFixSvg(svg)}})

\* a match of /<script\b/i at i: '<script' followed by no \w character
isScriptOpenAt(s, i) == occursAtCI(s, "<script", i) /\ ~isWordAt(s, i + 7)

\* sanitized.replace(/<script\b[^<]*(?:(?!<\/script>)<[^<]*)*<\/script>/gi, ''):
\* a match runs from '<script' followed by a non-word character to the first
\* '</script>' after it, in any letter case
RECURSIVE removeScriptsFrom(_, _)
removeScriptsFrom(s, from) ==
    IF ~\E i \in from..Len(s) :
           isScriptOpenAt(s, i) /\ indexOfFromCI(s, "</script>", i + 7) >= 0
    THEN substring(s, from, Len(s))
    ELSE Only({
           Only({substring(s, from, i) \o removeScriptsFrom(s, e + 9)
                 : e \in {indexOfFromCI(s, "</script>", i + 7)}})
           : i \in {CHOOSE i \in from..Len(s) :
                       /\ isScriptOpenAt(s, i)
                       /\ indexOfFromCI(s, "</script>", i + 7) >= 0
                       /\ \A j \in from..(i - 1) :
                             ~(/\ isScriptOpenAt(s, j)
                               /\ indexOfFromCI(s, "</script>", j + 7) >= 0)}})

removeScripts(s) == removeScriptsFrom(s, 0)

\* "Add XML namespace if missing"
addXmlns(s) ==
    IF ~includes(s, XMLNS) THEN replaceFirst(s, "<svg", "<svg " \o XMLNS) ELSE s

\* "Ensure proper viewBox"
addViewBox(s) ==
    IF ~includes(s, "viewBox")
    THEN replaceFirst(s, "<svg", "<svg viewBox=\"0 0 400 400\"") ELSE s

\* "Ensure proper width and height"
addSize(s) ==
    IF ~includes(s, "width=") /\ ~includes(s, "height=")
    THEN replaceFirst(s, "<svg", "<svg width=\"400\" height=\"400\"") ELSE s

sanitizeSvg(svg) ==
    Only({removeScripts(s3) : s3 \in
      {addSize(s2) : s2 \in
        {addViewBox(s1) : s1 \in
          {addXmlns(s0) : s0 \in {trim(svg)}}}}})

\* Math.max of the five lastIndexOf results
lastCompleteElementOf(s) ==
    Max2(lastIndexOf(s, "</g>"),
         Max2(lastIndexOf(s, "</path>"),
              Max2(lastIndexOf(s, "</rect>"),
                   Max2(lastIndexOf(s, "</circle>"), lastIndexOf(s, "</text>")))))

\* what is kept of the text: "+4 to include the closing tag"
truncateAt(svg, lastCompleteElement) ==
    IF lastCompleteElement > 0
    THEN substring(svg, 0, lastCompleteElement + 4)
    ELSE svg

fixTruncatedSvg(svg) ==
    IF ~Only({endsWith(t, "</svg>") : t \in {trim(svg)}})
    THEN Only({truncateAt(svg, l) : l \in {lastCompleteElementOf(svg)}})
             \o "</g></svg>"
    ELSE svg

-----------------------------------------------------------------------------
(* Animation presets and generateSvgVariations *)

WORKFLOW_HIGHLIGHT ==
    "<animate attributeName=\"stroke-width\" values=\"2;4;2\" dur=\"1s\" repeatCount=\"indefinite\"/>\n                <animate attributeName=\"stroke-opacity\" values=\"0.6;1;0.6\" dur=\"1s\" repeatCount=\"indefinite\"/>"
WORKFLOW_FLOW ==
    "<animate attributeName=\"stroke-dashoffset\" from=\"0\" to=\"20\" dur=\"1s\" repeatCount=\"indefinite\"/>"
WORKFLOW_PULSE ==
    "<animate attributeName=\"r\" values=\"10;12;10\" dur=\"1s\" repeatCount=\"indefinite\"/>\n            <animate attributeName=\"opacity\" values=\"0.6;1;0.6\" dur=\"1s\" repeatCount=\"indefinite\"/>"
WORKFLOW_FADEIN ==
    "<animate attributeName=\"opacity\" from=\"0\" to=\"1\" dur=\"0.5s\" fill=\"freeze\"/>"
VIDEO_ROTATE ==
    "<animateTransform attributeName=\"transform\" type=\"rotate\" from=\"0 200 200\" to=\"360 200 200\" dur=\"3s\" repeatCount=\"indefinite\"/>"
VIDEO_MORPH ==
    "<animate attributeName=\"d\" dur=\"2s\" repeatCount=\"indefinite\"/>"
VIDEO_SCALE ==
    "<animateTransform attributeName=\"transform\" type=\"scale\" values=\"1;1.2;1\" dur=\"1s\" repeatCount=\"indefinite\"/>"

WORKFLOW_SHADOW == "<svg style=\"filter: drop-shadow(0 0 3px rgba(0,0,0,0.2))\""
VIDEO_GLOW == "<svg style=\"filter: drop-shadow(0 0 5px rgba(255,255,255,0.5))\""

\* svg.replace(`<${target}`, `<${target}>${animation}`)
addAnimation(svg, animation, target) ==
    replaceFirst(svg, "<" \o target, "<" \o target \o ">" \o animation)

\* an injector that returns two variants, as earlier revisions did
generateSvgVariations_Two(baseSvg, type) == <<baseSvg, baseSvg>>

generateSvgVariations(baseSvg, type) ==
    IF type = "workflow"
    THEN << Only({addAnimation(e3, WORKFLOW_FADEIN, "text") : e3 \in
             {addAnimation(e2, WORKFLOW_HIGHLIGHT, "g[class*=\"highlight\"]") : e2 \in
               {addAnimation(e1, WORKFLOW_PULSE, "circle") : e1 \in
                 {addAnimation(e0, WORKFLOW_FLOW, "path") : e0 \in
                   {replaceFirst(baseSvg, "<svg", WORKFLOW_SHADOW)}}}}}) >>
    ELSE << Only({addAnimation(e2, VIDEO_MORPH, "path[class*=\"morph\"]") : e2 \in
             {addAnimation(e1, VIDEO_SCALE, "g[class*=\"scale\"]") : e1 \in
               {addAnimation(e0, VIDEO_ROTATE, "g[class*=\"rotate\"]") : e0 \in
                 {replaceFirst(baseSvg, "<svg", VIDEO_GLOW)}}}}) >>

-----------------------------------------------------------------------------
(* Inputs of the string passes: every concatenation of at most MaxParts     *)
(* fragments                                                                *)

MaxParts == 3

RECURSIVE Concats(_, _)
Concats(frags, n) ==
    IF n = 0 THEN {""}
    ELSE LET shorter == Concats(frags, n - 1)
         IN  shorter \cup {s \o f : s \in shorter, f \in frags}

NormalizeFragments ==
    {"<svg", "<SVG", "</svg>", "</SVG>", ">", "~~~", "~~~svg", " ", "a=b", "</s", "vg>"}

NormalizeInputs == Concats(NormalizeFragments, MaxParts)

-----------------------------------------------------------------------------
(* Values of the variables while their operation is not the one under check *)

NoVerdict == Verdict(FALSE, "not run")
NoResponse == [kind |-> "none", ok |-> FALSE, statusText |-> "", body |-> "none",
               message |-> "", content |-> ""]
NoError == [status |-> 0, message |-> ""]

FnIdle ==
    /\ fn = "none" /\ arg = "" /\ ret = "" /\ called = FALSE /\ ret2 = ""

GenIdle ==
    /\ gRev = "none" /\ gKey = FALSE /\ gModel = "" /\ gType = ""
    /\ gPc = "idle" /\ gResp = NoResponse /\ gBase = "" /\ gSent = <<>>
    /\ gLog = <<>> /\ gFirst = NoVerdict /\ gSecond = NoVerdict
    /\ gSvgs = <<>> /\ gResult = "pending" /\ gError = NoError

RasterIdle ==
    /\ rRev = "none" /\ rSvg = "" /\ rPc = "idle" /\ rSanitized = ""
    /\ rTempDir = "none" /\ rBrowser = "none" /\ rBrowserRef = "undefined"
    /\ rWritten = <<>> /\ rLoaded = <<>> /\ rFrames = 0 /\ rEncoded = 0
    /\ rResult = "pending" /\ rError = NoError

\* the null that findFirst returns when no record matches (record ids start
\* at 1)
NoAccount == 0

\* an invocation slot that runs nothing
NoInvocation ==
    [op |-> "none", user |-> "none", openId |-> "none", state |-> "",
     pc |-> "idle", found |-> NoAccount, status |-> 0, message |-> ""]

TSlots == {"a", "b"}

TikTokIdle ==
    /\ tAccounts = {} /\ tNextId = 1 /\ tStarted = 0
    /\ tProc = [p \in TSlots |-> NoInvocation]
    /\ tIssued = {}

NoPost ==
    [user |-> "none", fileId |-> "none", pc |-> "idle", account |-> NoAccount,
     accessToken |-> "", expired |-> FALSE, fresh |-> "", post |-> 0,
     status |-> 0, message |-> ""]

PostIdle ==
    /\ pNow = 0 /\ pTokens = <<>> /\ pPosts = <<>> /\ pProc = NoPost
    /\ pSent = <<>> /\ pStarted = 0

-----------------------------------------------------------------------------
(* normalize: one call of autoFixSvg on each input *)

CallAutoFixSvg ==
    /\ fn = "autoFixSvg" /\ ~called
    /\ ret' = autoFixSvg(arg)
    /\ called' = TRUE
    /\ UNCHANGED <<fn, arg, ret2, gVars, rVars, tVars, pVars>>

InitNormalize ==
    /\ fn = "autoFixSvg" /\ arg \in NormalizeInputs /\ ret = "" /\ called = FALSE
    /\ ret2 = ""
    /\ GenIdle /\ RasterIdle /\ TikTokIdle /\ PostIdle

\* autoFixSvg(autoFixSvg(x)): the second call, on the result of the first
CallAutoFixAgain ==
    /\ fn = "autoFixSvg" /\ called
    /\ ret2' = autoFixSvg(ret)
    /\ fn' = "autoFixSvg, autoFixSvg"
    /\ UNCHANGED <<arg, ret, called, gVars, rVars, tVars, pVars>>

NextNormalize == CallAutoFixSvg \/ CallAutoFixAgain

SpecNormalize == InitNormalize /\ [][NextNormalize]_vars

-----------------------------------------------------------------------------
(* validate: one call of validateSvg on each input, and one call of          *)
(* validateSvg on the result of autoFixSvg                                   *)

ValidateFragments == {"<svg", " " \o XMLNS, ">", "</svg>", "hello"}

ValidateInputs == NormalizeInputs \cup Concats(ValidateFragments, MaxParts)

CallValidateSvg ==
    /\ fn = "validateSvg" /\ ~called
    /\ ret' = validateSvg(arg)
    /\ called' = TRUE
    /\ UNCHANGED <<fn, arg, ret2, gVars, rVars, tVars, pVars>>

\* validateSvg(autoFixSvg(x)): the second call, on the result of the first
CallValidateNormalized ==
    /\ fn = "autoFixSvg" /\ called
    /\ ret2' = validateSvg(ret)
    /\ fn' = "autoFixSvg, validateSvg"
    /\ UNCHANGED <<arg, ret, called, gVars, rVars, tVars, pVars>>

InitValidate ==
    /\ fn \in {"validateSvg", "autoFixSvg"}
    /\ arg \in ValidateInputs /\ ret = "" /\ called = FALSE /\ ret2 = ""
    /\ GenIdle /\ RasterIdle /\ TikTokIdle /\ PostIdle

NextValidate == CallValidateSvg \/ CallAutoFixSvg \/ CallValidateNormalized

SpecValidate == InitValidate /\ [][NextValidate]_vars

-----------------------------------------------------------------------------
(* sanitize: one call of sanitizeSvg on each input, and one more call on its *)
(* result                                                                    *)

ROOT_FULL == "<svg " \o XMLNS \o " viewBox=\"0 0 400 400\" width=\"400\" height=\"400\">"

\* the text of the three attributes outside any tag
ATTRIBUTE_TEXT == XMLNS \o " viewBox=\"0 0 10 10\" width=\"10\" height=\"10\""

SanitizeRoots == {ROOT_FULL, "<svg>", "<svg width=\"100\">", "<g>"}

SanitizeFragments ==
    {"<script>", "</script>", "<script></script>", "<scr", "ipt>", ATTRIBUTE_TEXT}

MaxScriptParts == 4

\* a root, at most MaxScriptParts fragments, the closing tag
SanitizeInputs ==
    {root \o body \o "</svg>" :
        root \in SanitizeRoots, body \in Concats(SanitizeFragments, MaxScriptParts)}

CallSanitizeSvg ==
    /\ fn = "sanitizeSvg" /\ ~called
    /\ ret' = sanitizeSvg(arg)
    /\ called' = TRUE
    /\ UNCHANGED <<fn, arg, ret2, gVars, rVars, tVars, pVars>>

\* sanitizeSvg(sanitizeSvg(x)): the second call, on the result of the first
CallSanitizeAgain ==
    /\ fn = "sanitizeSvg" /\ called
    /\ ret2' = sanitizeSvg(ret)
    /\ fn' = "sanitizeSvg, sanitizeSvg"
    /\ UNCHANGED <<arg, ret, called, gVars, rVars, tVars, pVars>>

InitSanitize ==
    /\ fn = "sanitizeSvg"
    /\ arg \in SanitizeInputs /\ ret = "" /\ called = FALSE /\ ret2 = ""
    /\ GenIdle /\ RasterIdle /\ TikTokIdle /\ PostIdle

NextSanitize == CallSanitizeSvg \/ CallSanitizeAgain

SpecSanitize == InitSanitize /\ [][NextSanitize]_vars

-----------------------------------------------------------------------------
(* repairTruncated: one call of fixTruncatedSvg on each input, and one call  *)
(* of autoFixSvg on its result, as generateSvgs of part_001 makes them       *)

UNFINISHED_CIRCLE == "<circle cx=\"1\" cy=\"1\" r=\"1\""

RepairFragments ==
    {UNFINISHED_CIRCLE, "/>", ">", "<g>", "</g>", "</circle>", "<path d=\"M0 0\"",
     "</path>", "<rect/>", "</rect>", "<text>a", "</text>", "</svg>"}

\* a namespaced root opening tag and at most MaxParts fragments
RepairInputs ==
    {"<svg " \o XMLNS \o ">" \o body : body \in Concats(RepairFragments, MaxParts)}

CallFixTruncatedSvg ==
    /\ fn = "fixTruncatedSvg" /\ ~called
    /\ ret' = fixTruncatedSvg(arg)
    /\ called' = TRUE
    /\ UNCHANGED <<fn, arg, ret2, gVars, rVars, tVars, pVars>>

\* autoFixSvg(fixTruncatedSvg(x)): the second call, on the result of the first
CallNormalizeRepaired ==
    /\ fn = "fixTruncatedSvg" /\ called
    /\ ret2' = autoFixSvg(ret)
    /\ fn' = "fixTruncatedSvg, autoFixSvg"
    /\ UNCHANGED <<arg, ret, called, gVars, rVars, tVars, pVars>>

InitRepair ==
    /\ fn = "fixTruncatedSvg"
    /\ arg \in RepairInputs /\ ret = "" /\ called = FALSE /\ ret2 = ""
    /\ GenIdle /\ RasterIdle /\ TikTokIdle /\ PostIdle

NextRepair == CallFixTruncatedSvg \/ CallNormalizeRepaired

SpecRepair == InitRepair /\ [][NextRepair]_vars

-----------------------------------------------------------------------------
(* generateSvgs (operations.ts, and its earlier revision in unnamed/part_001) *)
(* and callOpenRouterAPI (ai-connection.ts)                                   *)

GenRevs == {"operations.ts", "part_001", "ai-connection.ts"}

\* the revisions that run the markup pipeline after the call
PipelineRevs == {"operations.ts", "part_001"}

OPENROUTER_API_URL == "https://openrouter.ai/api/v1/chat/completions"

\* MODEL_MAP[model as keyof typeof MODEL_MAP]
MODEL_MAP(model) ==
    CASE model = "deepseek" -> "deepseek/deepseek-r1:free"
      [] model = "claude" -> "anthropic/claude-3.7-sonnet"
      [] model = "openai" -> "openai/gpt-4o-mini"
      [] OTHER -> "undefined"

ModelSelectors == {"deepseek", "claude", "openai", "gpt-5"}
GraphicTypes == {"workflow", "videoElement"}

\* message.content values the provider may return
GenContents ==
    { "<svg xmlns=\"http://www.w3.org/2000/svg\" viewBox=\"0 0 400 400\"><path d=\"M0 0\"/><circle r=\"5\"/></svg>",
      "~~~svg\n<svg xmlns=\"http://www.w3.org/2000/svg\"><g class=\"highlight\"><text>a</text></g></svg>\n~~~",
      "<svg><circle r=\"5\"/></svg>",
      "<svg width=400><g class=\"rotate\"><path class=\"morph\"/></g></svg>",
      "<svg",
      "<svg <path d=\"M0 0\"/></svg>",
      "Here is your diagram",
      "",
      "<svg xmlns=\"http://www.w3.org/2000/svg\"><circle cx=\"1\" cy=\"1\" r=\"1\"",
      "<svg xmlns=\"http://www.w3.org/2000/svg\"><g><rect/></g><circle cx=\"1\"",
      "<svg xmlns=\"http://www.w3.org/2000/svg\"><rect width=\"10\" height=\"10\"/></svg>" }

Response(kind, ok, statusText, body, message, content) ==
    [kind |-> kind, ok |-> ok, statusText |-> statusText, body |-> body,
     message |-> message, content |-> content]

\* what `await fetch(...)` can produce: a rejection, a non-success response
\* (error body: JSON with a message, JSON without one, not JSON) or a success
\* response (JSON with choices[0].message.content, JSON without choices, not JSON)
GenResponses ==
    {Response("rejected", FALSE, "", "none", "", "")}
    \cup {Response("response", FALSE, st, "json", m, "") :
              st \in {"Too Many Requests", "Bad Gateway"},
              m \in {"", "Rate limit exceeded"}}
    \cup {Response("response", FALSE, "Bad Gateway", "not-json", "", "")}
    \cup {Response("response", TRUE, "OK", "json", "", c) : c \in GenContents}
    \cup {Response("response", TRUE, "OK", "json-no-choices", "", ""),
          Response("response", TRUE, "OK", "not-json", "", "")}

\* messages of the errors the libraries raise
FETCH_REJECTED == "request to https://openrouter.ai/api/v1/chat/completions failed"
INVALID_JSON == "invalid json response body"
NO_CHOICES == "Cannot read properties of undefined (reading '0')"

KEY_NOT_CONFIGURED == "OpenRouter API key is not configured"

HttpError(status, message) == [status |-> status, message |-> message]

\* the message of the catch block: error.message || '<fallback>'
CatchMessage(rev, message) ==
    IF message # "" THEN message
    ELSE IF rev = "ai-connection.ts" THEN "Failed to call OpenRouter API"
    ELSE "Failed to generate SVGs"

\* throw inside the try block: caught, logged, rethrown as HttpError(500, ...)
GThrow(message) ==
    /\ gResult' = "thrown"
    /\ gError' = HttpError(500, CatchMessage(gRev, message))
    /\ gPc' = "done"

\* a credential test that never fires
KeyMissing_Never(key) == FALSE

\* if (!process.env.OPENROUTER_API_KEY)
KeyMissing(key) == ~key

GCheckKey ==
    /\ gPc = "start"
    /\ IF KeyMissing(gKey)
       THEN /\ gResult' = "thrown"
            /\ gError' = HttpError(500, KEY_NOT_CONFIGURED)
            /\ gPc' = "done"
       ELSE /\ gPc' = "fetch"
            /\ UNCHANGED <<gResult, gError>>
    /\ UNCHANGED <<gRev, gKey, gModel, gType, gResp, gBase, gSent, gLog,
                   gFirst, gSecond, gSvgs, fnVars, rVars, tVars, pVars>>

\* the body of the POST request
RequestBody(model) == [url |-> OPENROUTER_API_URL, model |-> MODEL_MAP(model)]

\* const response = await fetch(OPENROUTER_API_URL, {...})
GFetch ==
    /\ gPc = "fetch"
    /\ gSent' = Append(gSent, RequestBody(gModel))
    /\ \E resp \in GenResponses :
          IF resp.kind = "rejected"
          THEN GThrow(FETCH_REJECTED) /\ UNCHANGED gResp
          ELSE gResp' = resp /\ gPc' = "status" /\ UNCHANGED <<gResult, gError>>
    /\ UNCHANGED <<gRev, gKey, gModel, gType, gBase, gLog,
                   gFirst, gSecond, gSvgs, fnVars, rVars, tVars, pVars>>

\* `OpenRouter API error: ${errorData.error?.message || response.statusText}`
UpstreamMessage(resp) ==
    "OpenRouter API error: "
        \o (IF resp.message # "" THEN resp.message ELSE resp.statusText)

\* a client that sends the request again after a non-success response
AfterStatus_Retry(resp) == IF resp.ok THEN "extract" ELSE "fetch"

\* where control goes after `if (!response.ok)`
AfterStatus(resp) == IF resp.ok THEN "extract" ELSE "throw"

\* if (!response.ok) { const errorData = await response.json(); throw ... }
GStatus ==
    /\ gPc = "status"
    /\ IF AfterStatus(gResp) = "throw"
       THEN IF gResp.body = "json"
            THEN GThrow(UpstreamMessage(gResp))
            ELSE GThrow(INVALID_JSON)
       ELSE gPc' = AfterStatus(gResp) /\ UNCHANGED <<gResult, gError>>
    /\ UNCHANGED <<gRev, gKey, gModel, gType, gResp, gBase, gSent, gLog,
                   gFirst, gSecond, gSvgs, fnVars, rVars, tVars, pVars>>

\* the first pipeline stage of a revision
FirstStage(rev) == IF rev = "part_001" THEN "fixTruncated" ELSE "autoFix"

\* const data = await response.json(); data.choices[0].message.content
GExtract ==
    /\ gPc = "extract"
    /\ IF gResp.body = "not-json"
           THEN GThrow(INVALID_JSON) /\ UNCHANGED gBase
       ELSE IF gResp.body = "json-no-choices"
           THEN GThrow(NO_CHOICES) /\ UNCHANGED gBase
       ELSE IF gRev = "ai-connection.ts"
           THEN /\ gBase' = gResp.content
                /\ gResult' = "returned"
                /\ gPc' = "done"
                /\ UNCHANGED gError
       ELSE /\ gBase' = gResp.content
            /\ gPc' = FirstStage(gRev)
            /\ UNCHANGED <<gResult, gError>>
    /\ UNCHANGED <<gRev, gKey, gModel, gType, gResp, gSent, gLog,
                   gFirst, gSecond, gSvgs, fnVars, rVars, tVars, pVars>>

\* baseSvg = fixTruncatedSvg(baseSvg)   (part_001 only)
GFixTruncated ==
    /\ gPc = "fixTruncated"
    /\ gBase' = fixTruncatedSvg(gBase)
    /\ gLog' = Append(gLog, "fixTruncatedSvg")
    /\ gPc' = "autoFix"
    /\ UNCHANGED <<gRev, gKey, gModel, gType, gResp, gSent,
                   gFirst, gSecond, gSvgs, gResult, gError, fnVars, rVars, tVars, pVars>>

\* baseSvg = autoFixSvg(baseSvg)
GAutoFix ==
    /\ gPc = "autoFix"
    /\ gBase' = autoFixSvg(gBase)
    /\ gLog' = Append(gLog, "autoFixSvg")
    /\ gPc' = "validate"
    /\ UNCHANGED <<gRev, gKey, gModel, gType, gResp, gSent,
                   gFirst, gSecond, gSvgs, gResult, gError, fnVars, rVars, tVars, pVars>>

\* where control goes after the first validation
AfterFirstValidation(v) == IF v.isValid THEN "inject" ELSE "sanitize"

\* const validation = validateSvg(baseSvg); if (!validation.isValid) ...
GValidate ==
    /\ gPc = "validate"
    /\ \E validation \in {validateSvg(gBase)} :
          /\ gFirst' = validation
          /\ gPc' = AfterFirstValidation(validation)
    /\ gLog' = Append(gLog, "validateSvg")
    /\ UNCHANGED <<gRev, gKey, gModel, gType, gResp, gBase, gSent,
                   gSecond, gSvgs, gResult, gError, fnVars, rVars, tVars, pVars>>

\* baseSvg = sanitizeSvg(baseSvg)
GSanitize ==
    /\ gPc = "sanitize"
    /\ gBase' = sanitizeSvg(gBase)
    /\ gLog' = Append(gLog, "sanitizeSvg")
    /\ gPc' = "revalidate"
    /\ UNCHANGED <<gRev, gKey, gModel, gType, gResp, gSent,
                   gFirst, gSecond, gSvgs, gResult, gError, fnVars, rVars, tVars, pVars>>

\* a pipeline that injects whatever the second validation said
AfterSecondValidation_Ignored(v) == "inject"

\* where control goes after the second validation
AfterSecondValidation(v) == IF v.isValid THEN "inject" ELSE "throw"

\* const secondValidation = validateSvg(baseSvg);
\* if (!secondValidation.isValid) throw new Error(`Invalid SVG generated: ...`)
GRevalidate ==
    /\ gPc = "revalidate"
    /\ \E secondValidation \in {validateSvg(gBase)} :
          /\ gSecond' = secondValidation
          /\ IF AfterSecondValidation(secondValidation) = "throw"
             THEN GThrow("Invalid SVG generated: " \o secondValidation.error)
             ELSE /\ gPc' = AfterSecondValidation(secondValidation)
                  /\ UNCHANGED <<gResult, gError>>
    /\ gLog' = Append(gLog, "validateSvg")
    /\ UNCHANGED <<gRev, gKey, gModel, gType, gResp, gBase, gSent,
                   gFirst, gSvgs, fnVars, rVars, tVars, pVars>>

\* the verdicts of validateSvg on the variations, in their order
VariationVerdicts(svgs) == [k \in 1..Len(svgs) |-> validateSvg(svgs[k])]

\* const svgs = generateSvgVariations(baseSvg, type);
\* for (const svg of svgs) { validateSvg(svg) ... throw }; return { svgs }
GInject ==
    /\ gPc = "inject"
    /\ gLog' = Append(gLog, "generateSvgVariations")
    /\ \E svgs \in {generateSvgVariations(gBase, gType)} :
       \E verdicts \in {VariationVerdicts(svgs)} :
          IF \E k \in 1..Len(svgs) : ~verdicts[k].isValid
          THEN /\ \E k \in 1..Len(svgs) :
                    /\ ~verdicts[k].isValid
                    /\ \A j \in 1..(k - 1) : verdicts[j].isValid
                    /\ GThrow("Invalid SVG variation: " \o verdicts[k].error)
               /\ UNCHANGED gSvgs
          ELSE /\ gSvgs' = svgs
               /\ gResult' = "returned"
               /\ gPc' = "done"
               /\ UNCHANGED gError
    /\ UNCHANGED <<gRev, gKey, gModel, gType, gResp, gBase, gSent,
                   gFirst, gSecond, fnVars, rVars, tVars, pVars>>

InitGenerate ==
    /\ gRev \in GenRevs
    /\ gKey \in BOOLEAN
    /\ gModel \in ModelSelectors
    /\ gType \in (IF gRev \in PipelineRevs THEN GraphicTypes ELSE {"workflow"})
    /\ gPc = "start" /\ gResp = NoResponse /\ gBase = "" /\ gSent = <<>>
    /\ gLog = <<>> /\ gFirst = NoVerdict /\ gSecond = NoVerdict
    /\ gSvgs = <<>> /\ gResult = "pending" /\ gError = NoError
    /\ FnIdle /\ RasterIdle /\ TikTokIdle /\ PostIdle

NextGenerate ==
    \/ GCheckKey \/ GFetch \/ GStatus \/ GExtract \/ GFixTruncated
    \/ GAutoFix \/ GValidate \/ GSanitize \/ GRevalidate \/ GInject

SpecGenerate == InitGenerate /\ [][NextGenerate]_vars

-----------------------------------------------------------------------------
(* injectAnimations: one call of generateSvgVariations on each document      *)

PATH_ELEMENT == "<path d=\"M0 0\"/>"
CIRCLE_ELEMENT == "<circle r=\"5\"/>"
TEXT_ELEMENT == "<text>a</text>"
HIGHLIGHT_GROUP == "<g class=\"highlight\"></g>"

InjectElements ==
    {PATH_ELEMENT, CIRCLE_ELEMENT, TEXT_ELEMENT, HIGHLIGHT_GROUP, "<rect/>",
     "<g class=\"rotate\"></g>", "<g class=\"scale\"></g>", "<path class=\"morph\"/>"}

\* a namespaced root around at most MaxParts elements
InjectDocuments ==
    {"<svg " \o XMLNS \o ">" \o body \o "</svg>" :
        body \in Concats(InjectElements, MaxParts)}

\* the arguments of one call
InjectArgs(baseSvg, type) == [baseSvg |-> baseSvg, type |-> type]

CallGenerateSvgVariations ==
    /\ fn = "generateSvgVariations" /\ ~called
    /\ ret' = generateSvgVariations(arg.baseSvg, arg.type)
    /\ called' = TRUE
    /\ UNCHANGED <<fn, arg, ret2, gVars, rVars, tVars, pVars>>

InitInject ==
    /\ fn = "generateSvgVariations"
    /\ arg \in {InjectArgs(d, t) : d \in InjectDocuments, t \in GraphicTypes}
    /\ ret = <<>> /\ called = FALSE /\ ret2 = ""
    /\ GenIdle /\ RasterIdle /\ TikTokIdle /\ PostIdle

NextInject == CallGenerateSvgVariations

SpecInject == InitInject /\ [][NextInject]_vars

-----------------------------------------------------------------------------
(* convertSvgToGif (image-processing.ts) and convertToGif (operations.ts, and *)
(* its earlier revision in unnamed/part_001), one await per step              *)

RasterRevs == {"image-processing.ts", "operations.ts", "part_001"}

RasterInputs ==
    { "",
      "<svg xmlns=\"http://www.w3.org/2000/svg\" viewBox=\"0 0 400 400\" width=\"400\" height=\"400\"><circle r=\"10\"><animate attributeName=\"r\" values=\"10;12;10\" dur=\"1s\" repeatCount=\"indefinite\"/></circle></svg>",
      "<svg xmlns=\"http://www.w3.org/2000/svg\" viewBox=\"0 0 400 400\" width=\"400\" height=\"400\"><script>alert(1)</script><rect/></svg>",
      "<svg xmlns=\"http://www.w3.org/2000/svg\"><rect/></svg>",
      "<svg></svg>",
      "<svg" }

\* the test of `if (...) throw new Error('Invalid SVG content')`: operations.ts
\* negates the object validateSvg returns, the other two its isValid field
RejectsInput(rev, svg) ==
    IF rev = "operations.ts" THEN FALSE ELSE ~validateSvg(svg).isValid

\* frames captured before the browser is closed
FRAMES_ANIMATED == 5
FRAMES_SINGLE == 1
FrameCount(rev) == IF rev = "operations.ts" THEN FRAMES_SINGLE ELSE FRAMES_ANIMATED

\* frames the encoder is given: sharp(processedFrames[0]).gif(...) and
\* sharp(pngPath).toFormat('gif', ...)
FRAMES_ENCODED == 1

\* the statement that follows each step
NextPc(rev, pc) ==
    IF rev = "operations.ts"
    THEN CASE pc = "validate" -> "sanitize"
           [] pc = "sanitize" -> "mkdtemp"
           [] pc = "mkdtemp" -> "writeSvg"
           [] pc = "writeSvg" -> "launch"
           [] pc = "launch" -> "newPage"
           [] pc = "newPage" -> "setContent"
           [] pc = "setContent" -> "setViewport"
           [] pc = "setViewport" -> "evaluate"
           [] pc = "evaluate" -> "screenshot"
           [] pc = "screenshot" -> "close"
           [] pc = "close" -> "encode"
           [] pc = "encode" -> "readGif"
           [] pc = "readGif" -> "rm"
           [] OTHER -> "done"
    ELSE CASE pc = "validate" -> "mkdtemp"
           [] pc = "mkdtemp" -> "writeSvg"
           [] pc = "writeSvg" -> "writeHtml"
           [] pc = "writeHtml" -> "launch"
           [] pc = "launch" -> "newPage"
           [] pc = "newPage" -> "setViewport"
           [] pc = "setViewport" -> "goto"
           [] pc = "goto" -> "screenshot"
           [] pc = "screenshot" -> "close"
           [] pc = "close" -> "encode"
           [] pc = "encode" -> "writeGif"
           [] pc = "writeGif" -> "readGif"
           [] pc = "readGif" -> "rm"
           [] OTHER -> "done"

\* the steps whose failure reaches the block that closes the browser:
\* image-processing.ts: try { launch ... rm } catch { if (browser) close }
\* part_001:            launch; try { newPage ... rm } catch { close }
\* operations.ts:       launch; try { newPage ... screenshot } finally { close }
ClosesOnFailure(rev, pc) ==
    CASE rev = "image-processing.ts" ->
             pc \notin {"validate", "mkdtemp", "writeSvg", "writeHtml"}
      [] rev = "part_001" ->
             pc \notin {"validate", "mkdtemp", "writeSvg", "writeHtml", "launch"}
      [] OTHER ->
             pc \in {"newPage", "setContent", "setViewport", "evaluate", "screenshot"}

\* a failure path that leaves the browser as it is
BrowserAfterFailure_Leak(rev, pc, browser, ref) == browser

\* the browser after the failure of step pc
BrowserAfterFailure(rev, pc, browser, ref) ==
    IF ClosesOnFailure(rev, pc) /\ ref = "handle" THEN "closed" ELSE browser

\* the temporary directory after the failure of a step: no revision removes it
\* in a catch or finally block
TempDirAfterFailure(rev, tempDir) == tempDir

\* the error the caller receives: image-processing.ts rethrows it, the two
\* convertToGif wrap it
RasterError(rev, message) ==
    IF rev = "image-processing.ts" THEN HttpError(0, message)
    ELSE HttpError(500, "Failed to convert to GIF: " \o message)

RFail(message) ==
    /\ rResult' = "thrown"
    /\ rError' = RasterError(rRev, message)
    /\ rBrowser' = BrowserAfterFailure(rRev, rPc, rBrowser, rBrowserRef)
    /\ rTempDir' = TempDirAfterFailure(rRev, rTempDir)
    /\ rPc' = "done"

RStep == rPc' = NextPc(rRev, rPc) /\ UNCHANGED <<rResult, rError>>

\* if (!validateSvg(svg).isValid) throw new Error('Invalid SVG content')
RValidate ==
    /\ rPc = "validate"
    /\ IF RejectsInput(rRev, rSvg)
       THEN RFail("Invalid SVG content")
       ELSE RStep /\ UNCHANGED <<rBrowser, rTempDir>>
    /\ UNCHANGED <<rRev, rSvg, rSanitized, rBrowserRef, rWritten, rLoaded,
                   rFrames, rEncoded, fnVars, gVars, tVars, pVars>>

\* const sanitizedSvg = sanitizeSvg(svg)   (operations.ts only)
RSanitize ==
    /\ rPc = "sanitize"
    /\ rSanitized' = sanitizeSvg(rSvg)
    /\ RStep
    /\ UNCHANGED <<rRev, rSvg, rTempDir, rBrowser, rBrowserRef, rWritten, rLoaded,
                   rFrames, rEncoded, fnVars, gVars, tVars, pVars>>

\* const tempDir = await fs.mkdtemp(...)
RMkdtemp ==
    /\ rPc = "mkdtemp"
    /\ \E ok \in BOOLEAN :
          IF ok THEN rTempDir' = "exists" /\ RStep /\ UNCHANGED rBrowser
          ELSE RFail("mkdtemp failed")
    /\ UNCHANGED <<rRev, rSvg, rSanitized, rBrowserRef, rWritten, rLoaded,
                   rFrames, rEncoded, fnVars, gVars, tVars, pVars>>

\* the markup a revision writes and renders
RenderedMarkup(rev, svg, sanitized) ==
    IF rev = "operations.ts" THEN sanitized ELSE svg

File(name, markup) == [file |-> name, markup |-> markup]

FileOf(pc) ==
    CASE pc = "writeSvg" -> "input.svg"
      [] pc = "writeHtml" -> "render.html"
      [] OTHER -> "output.gif"

\* await fs.writeFile(svgPath | htmlPath | gifPath, ...)
RWriteFile ==
    /\ rPc \in {"writeSvg", "writeHtml", "writeGif"}
    /\ \E ok \in BOOLEAN :
          IF ok
          THEN /\ rWritten' = Append(rWritten,
                     File(FileOf(rPc),
                          IF rPc = "writeGif" THEN ""
                          ELSE RenderedMarkup(rRev, rSvg, rSanitized)))
               /\ RStep /\ UNCHANGED <<rBrowser, rTempDir>>
          ELSE RFail("writeFile failed") /\ UNCHANGED rWritten
    /\ UNCHANGED <<rRev, rSvg, rSanitized, rBrowserRef, rLoaded,
                   rFrames, rEncoded, fnVars, gVars, tVars, pVars>>

\* browser = await puppeteer.launch(...)
RLaunch ==
    /\ rPc = "launch"
    /\ \E ok \in BOOLEAN :
          IF ok
          THEN /\ rBrowser' = "open" /\ rBrowserRef' = "handle"
               /\ RStep /\ UNCHANGED rTempDir
          ELSE RFail("launch failed") /\ UNCHANGED rBrowserRef
    /\ UNCHANGED <<rRev, rSvg, rSanitized, rWritten, rLoaded,
                   rFrames, rEncoded, fnVars, gVars, tVars, pVars>>

\* browser.newPage(), page.setViewport(), page.goto(file://render.html),
\* page.setContent(sanitizedSvg), page.evaluate()
RPageStep ==
    /\ rPc \in {"newPage", "setViewport", "goto", "setContent", "evaluate"}
    /\ \E ok \in BOOLEAN :
          IF ok
          THEN /\ rLoaded' = IF rPc \in {"goto", "setContent"}
                             THEN <<RenderedMarkup(rRev, rSvg, rSanitized)>>
                             ELSE rLoaded
               /\ RStep /\ UNCHANGED <<rBrowser, rTempDir>>
          ELSE RFail(rPc \o " failed") /\ UNCHANGED rLoaded
    /\ UNCHANGED <<rRev, rSvg, rSanitized, rBrowserRef, rWritten,
                   rFrames, rEncoded, fnVars, gVars, tVars, pVars>>

\* await page.screenshot(...), FrameCount(rev) times
RScreenshot ==
    /\ rPc = "screenshot"
    /\ \E ok \in BOOLEAN :
          IF ok
          THEN /\ rFrames' = rFrames + 1
               /\ IF rFrames + 1 < FrameCount(rRev)
                  THEN UNCHANGED <<rPc, rResult, rError>>
                  ELSE RStep
               /\ UNCHANGED <<rBrowser, rTempDir>>
          ELSE RFail("screenshot failed") /\ UNCHANGED rFrames
    /\ UNCHANGED <<rRev, rSvg, rSanitized, rBrowserRef, rWritten, rLoaded,
                   rEncoded, fnVars, gVars, tVars, pVars>>

\* await browser.close() on the success path (image-processing.ts then sets
\* browser = null)
RClose ==
    /\ rPc = "close"
    /\ rBrowser' = "closed"
    /\ rBrowserRef' = IF rRev = "image-processing.ts" THEN "null" ELSE rBrowserRef
    /\ RStep
    /\ UNCHANGED <<rRev, rSvg, rSanitized, rTempDir, rWritten, rLoaded,
                   rFrames, rEncoded, fnVars, gVars, tVars, pVars>>

\* sharp(...).metadata(), resize of every frame, sharp(first frame).gif()
REncode ==
    /\ rPc = "encode"
    /\ \E ok \in BOOLEAN :
          IF ok
          THEN /\ rEncoded' = FRAMES_ENCODED
               /\ RStep /\ UNCHANGED <<rBrowser, rTempDir>>
          ELSE RFail("encode failed") /\ UNCHANGED rEncoded
    /\ UNCHANGED <<rRev, rSvg, rSanitized, rBrowserRef, rWritten, rLoaded,
                   rFrames, fnVars, gVars, tVars, pVars>>

\* const gifBuffer = await fs.readFile(gifPath)
RReadGif ==
    /\ rPc = "readGif"
    /\ \E ok \in BOOLEAN :
          IF ok THEN RStep /\ UNCHANGED <<rBrowser, rTempDir>>
          ELSE RFail("readFile failed")
    /\ UNCHANGED <<rRev, rSvg, rSanitized, rBrowserRef, rWritten, rLoaded,
                   rFrames, rEncoded, fnVars, gVars, tVars, pVars>>

\* await fs.rm(tempDir, { recursive: true, force: true }); return the data URI
RRemoveAndReturn ==
    /\ rPc = "rm"
    /\ \E ok \in BOOLEAN :
          IF ok
          THEN /\ rTempDir' = "removed"
               /\ rResult' = "returned"
               /\ rPc' = NextPc(rRev, rPc)
               /\ UNCHANGED <<rBrowser, rError>>
          ELSE RFail("rm failed")
    /\ UNCHANGED <<rRev, rSvg, rSanitized, rBrowserRef, rWritten, rLoaded,
                   rFrames, rEncoded, fnVars, gVars, tVars, pVars>>

InitRasterize ==
    /\ rRev \in RasterRevs
    /\ rSvg \in RasterInputs
    /\ rPc = "validate" /\ rSanitized = ""
    /\ rTempDir = "none" /\ rBrowser = "none" /\ rBrowserRef = "undefined"
    /\ rWritten = <<>> /\ rLoaded = <<>> /\ rFrames = 0 /\ rEncoded = 0
    /\ rResult = "pending" /\ rError = NoError
    /\ FnIdle /\ GenIdle /\ TikTokIdle /\ PostIdle

NextRasterize ==
    \/ RValidate \/ RSanitize \/ RMkdtemp \/ RWriteFile \/ RLaunch \/ RPageStep
    \/ RScreenshot \/ RClose \/ REncode \/ RReadGif \/ RRemoveAndReturn

SpecRasterize == InitRasterize /\ [][NextRasterize]_vars

-----------------------------------------------------------------------------
(* connectTikTokAccount and disconnectTikTokAccount (unnamed/part_002) on    *)
(* the TikTokAccount table of the migration (unnamed/part_000); invocations  *)
(* interleave at their awaits                                                *)

MaxInvocations == 3

TUsers == {"u1", "u2"}
NoUser == "anonymous"
TOpenIds == {"o1", "o2"}

\* JSON.stringify({ state, codeVerifier })
JSONstringify(state, codeVerifier) ==
    "{\"state\":\"" \o state \o "\",\"codeVerifier\":\"" \o codeVerifier \o "\"}"

\* JSON.parse(text) of an object whose members are strings: whether it parses
JSONparses(text) == startsWith(text, "{") /\ endsWith(text, "}")

\* JSON.parse(text).codeVerifier || '': the text of the member, '' without it
JSONcodeVerifier(text) ==
    LET key == "\"codeVerifier\":\""
        at == indexOf(text, key)
    IN  IF at = -1 THEN ""
        ELSE substring(text, at + Len(key), indexOfFrom(text, "\"", at + Len(key)))

\* uuidv4() and crypto.randomBytes(64).toString('base64url')
TUuids == {"7f3a"}
TVerifiers == {"Zm9v"}

\* a state parameter composed by the caller, with a code verifier of their own
FORGED_STATE == JSONstringify("0000", "bWluZQ")

\* the state parameters a caller composes: with a codeVerifier, JSON without
\* one, not JSON, none
TStates == {FORGED_STATE, "{}", "not json", ""}

Account(id, userId, openId) == [id |-> id, userId |-> userId, openId |-> openId]

\* findFirst({ where: { userId } }): the id of the user's record, or null
FindFirst(accounts, userId) ==
    IF \E a \in accounts : a.userId = userId
    THEN (CHOOSE a \in accounts : a.userId = userId).id
    ELSE NoAccount

\* an insert that would break only TikTokAccount_openId_key
CreateRejected_OpenIdOnly(accounts, userId, openId) ==
    \E a \in accounts : a.openId = openId

\* CREATE UNIQUE INDEX "TikTokAccount_openId_key" / "TikTokAccount_userId_key":
\* the insert the database rejects
CreateRejected(accounts, userId, openId) ==
    \E a \in accounts : a.userId = userId \/ a.openId = openId

\* update({ where: { id }, data: { openId, ... } }): the record is gone, or
\* another record holds the openId
UpdateRejected(accounts, id, openId) ==
    \/ ~\E a \in accounts : a.id = id
    \/ \E a \in accounts : a.id # id /\ a.openId = openId

TSet(p, invocation) == tProc' = [tProc EXCEPT ![p] = invocation]

TDone(p, status, message) ==
    TSet(p, [tProc[p] EXCEPT !.pc = "done", !.status = status, !.message = message])

\* connectTikTokAccount up to its first await: authorization, credentials,
\* JSON.parse(state), code verifier
TStartConnect(p) ==
    /\ tProc[p].pc \in {"idle", "done"}
    /\ tStarted < MaxInvocations
    /\ tStarted' = tStarted + 1
    /\ \E user \in TUsers \cup {NoUser}, openId \in TOpenIds,
          state \in TStates \cup tIssued, configured \in BOOLEAN :
          \E inv \in {[NoInvocation EXCEPT !.op = "connect", !.user = user,
                                           !.openId = openId, !.state = state]} :
             IF user = NoUser
                 THEN TSet(p, [inv EXCEPT !.pc = "done", !.status = 401,
                                          !.message = "Not authorized"])
             ELSE IF ~configured
                 THEN TSet(p, [inv EXCEPT !.pc = "done", !.status = 500,
                          !.message = "TikTok API credentials not configured"])
             ELSE IF ~JSONparses(IF state = "" THEN "{}" ELSE state)
                 THEN TSet(p, [inv EXCEPT !.pc = "done", !.status = 500,
                          !.message = "Failed to connect TikTok account: Invalid state parameter"])
             ELSE IF JSONcodeVerifier(state) = ""
                 THEN TSet(p, [inv EXCEPT !.pc = "done", !.status = 500,
                          !.message = "Failed to connect TikTok account: Missing code verifier"])
             ELSE TSet(p, [inv EXCEPT !.pc = "exchange"])
    /\ UNCHANGED <<tAccounts, tNextId, tIssued, fnVars, gVars, rVars, pVars>>

\* await axios.post(.../oauth/access_token/) and await axios.get(.../user/info/)
TProviderCall(p) ==
    /\ tProc[p].op = "connect" /\ tProc[p].pc \in {"exchange", "userInfo"}
    /\ \E ok \in BOOLEAN :
          IF ok
          THEN TSet(p, [tProc[p] EXCEPT !.pc =
                   IF tProc[p].pc = "exchange" THEN "userInfo" ELSE "find"])
          ELSE TDone(p, 500, "Failed to connect TikTok account: request failed")
    /\ UNCHANGED <<tAccounts, tNextId, tStarted, tIssued, fnVars, gVars, rVars, pVars>>

\* const existingAccount = await TikTokAccount.findFirst(...)
TConnectFind(p) ==
    /\ tProc[p].op = "connect" /\ tProc[p].pc = "find"
    /\ TSet(p, [tProc[p] EXCEPT !.pc = "write",
                                !.found = FindFirst(tAccounts, tProc[p].user)])
    /\ UNCHANGED <<tAccounts, tNextId, tStarted, tIssued, fnVars, gVars, rVars, pVars>>

\* if (existingAccount) await TikTokAccount.update(...)
\* else await TikTokAccount.create(...)
TConnectWrite(p) ==
    /\ tProc[p].op = "connect" /\ tProc[p].pc = "write"
    /\ IF tProc[p].found # NoAccount
       THEN IF UpdateRejected(tAccounts, tProc[p].found, tProc[p].openId)
            THEN /\ TDone(p, 500, "Failed to connect TikTok account: update failed")
                 /\ UNCHANGED <<tAccounts, tNextId>>
            ELSE /\ tAccounts' =
                        {IF a.id = tProc[p].found
                         THEN [a EXCEPT !.openId = tProc[p].openId] ELSE a
                         : a \in tAccounts}
                 /\ TDone(p, 200, "")
                 /\ UNCHANGED tNextId
       ELSE IF CreateRejected(tAccounts, tProc[p].user, tProc[p].openId)
            THEN /\ TDone(p, 500, "Failed to connect TikTok account: Unique constraint failed")
                 /\ UNCHANGED <<tAccounts, tNextId>>
            ELSE /\ tAccounts' = tAccounts \cup
                        {Account(tNextId, tProc[p].user, tProc[p].openId)}
                 /\ tNextId' = tNextId + 1
                 /\ TDone(p, 200, "")
    /\ UNCHANGED <<tStarted, tIssued, fnVars, gVars, rVars, pVars>>

\* getTikTokAuthUrl: the state parameter it returns is kept nowhere
TGetAuthUrl ==
    /\ tStarted < MaxInvocations
    /\ tStarted' = tStarted + 1
    /\ \E configured \in BOOLEAN, state \in TUuids, codeVerifier \in TVerifiers :
          IF ~configured
          THEN UNCHANGED tIssued
          ELSE tIssued' = tIssued \cup {JSONstringify(state, codeVerifier)}
    /\ UNCHANGED <<tAccounts, tNextId, tProc, fnVars, gVars, rVars, pVars>>

\* disconnectTikTokAccount up to its first await: authorization
TStartDisconnect(p) ==
    /\ tProc[p].pc \in {"idle", "done"}
    /\ tStarted < MaxInvocations
    /\ tStarted' = tStarted + 1
    /\ \E user \in TUsers \cup {NoUser} :
          \E inv \in {[NoInvocation EXCEPT !.op = "disconnect", !.user = user]} :
             IF user = NoUser
             THEN TSet(p, [inv EXCEPT !.pc = "done", !.status = 401,
                                      !.message = "Not authorized"])
             ELSE TSet(p, [inv EXCEPT !.pc = "find"])
    /\ UNCHANGED <<tAccounts, tNextId, tIssued, fnVars, gVars, rVars, pVars>>

\* const tikTokAccount = await TikTokAccount.findFirst(...);
\* if (!tikTokAccount) throw new HttpError(404, ...), which the catch block of
\* the operation replaces by HttpError(500, 'Failed to disconnect TikTok account')
TDisconnectFind(p) ==
    /\ tProc[p].op = "disconnect" /\ tProc[p].pc = "find"
    /\ \E found \in {FindFirst(tAccounts, tProc[p].user)} :
          IF found = NoAccount
          THEN TDone(p, 500, "Failed to disconnect TikTok account")
          ELSE TSet(p, [tProc[p] EXCEPT !.pc = "delete", !.found = found])
    /\ UNCHANGED <<tAccounts, tNextId, tStarted, tIssued, fnVars, gVars, rVars, pVars>>

\* await TikTokAccount.delete({ where: { id } }); return { success: true }
TDisconnectDelete(p) ==
    /\ tProc[p].op = "disconnect" /\ tProc[p].pc = "delete"
    /\ IF \E a \in tAccounts : a.id = tProc[p].found
       THEN /\ tAccounts' = {a \in tAccounts : a.id # tProc[p].found}
            /\ TDone(p, 200, "")
       ELSE /\ TDone(p, 500, "Failed to disconnect TikTok account")
            /\ UNCHANGED tAccounts
    /\ UNCHANGED <<tNextId, tStarted, tIssued, fnVars, gVars, rVars, pVars>>

InitTikTok == TikTokIdle /\ PostIdle /\ FnIdle /\ GenIdle /\ RasterIdle

NextTikTok ==
    \/ \E p \in TSlots :
        \/ TStartConnect(p) \/ TProviderCall(p) \/ TConnectFind(p)
        \/ TConnectWrite(p) \/ TStartDisconnect(p) \/ TDisconnectFind(p)
        \/ TDisconnectDelete(p)
    \/ TGetAuthUrl

SpecTikTok == InitTikTok /\ [][NextTikTok]_vars

-----------------------------------------------------------------------------
(* createTikTokPost and refreshTikTokToken (unnamed/part_002): one           *)
(* invocation at a time, one step for each await                              *)

MaxPosts == 2
MaxTime == 2

TIKTOK_API_BASE_URL == "https://open.tiktokapis.com/v2"
VIDEO_INIT_URL == TIKTOK_API_BASE_URL \o "/video/init/"
VIDEO_PUBLISH_URL == TIKTOK_API_BASE_URL \o "/video/publish/"
REFRESH_TOKEN_URL == "https://open-api.tiktok.com/oauth/refresh_token/"
UPLOAD_URL == "file.uploadUrl"

\* the File table, and the fileId arguments
PFiles == {"file-1"}
PFileIds == PFiles \cup {"file-0"}

\* the access tokens TikTok hands out
PTokens == {"token-0", "token-1", "token-2"}

\* the objects createTikTokPost can catch: an HttpError or Error it threw
\* itself, and the error of a rejected axios call
ThrownError(message) == [name |-> "Error", message |-> message]
AxiosError == [name |-> "AxiosError", message |-> "Request failed",
               code |-> "ERR_BAD_RESPONSE"]

Post(tikTokAccountId, videoKey) ==
    [tikTokAccountId |-> tikTokAccountId, videoKey |-> videoKey,
     status |-> "pending", errorMessage |-> "", tikTokPostId |-> ""]

\* { headers: { 'Authorization': `Bearer ${tikTokAccount.accessToken}` } }
Request(url, accessToken) ==
    [url |-> url, authorization |-> "Bearer " \o accessToken]

\* new Date(tikTokAccount.expiresAt) <= new Date()
IsExpired(expiresAt, now) == expiresAt <= now

\* the catch block of createTikTokPost: a post is marked failed only when the
\* caught object has a tikTokPostId property; HttpError(500, ...) is thrown
PCatch(error) ==
    /\ IF "tikTokPostId" \in DOMAIN error
       THEN pPosts' = [pPosts EXCEPT ![error.tikTokPostId] =
                          [@ EXCEPT !.status = "failed",
                                    !.errorMessage = error.message]]
       ELSE UNCHANGED pPosts
    /\ pProc' = [pProc EXCEPT !.pc = "done", !.status = 500,
                    !.message = "Failed to create TikTok post: " \o error.message]

\* createTikTokPost up to its first await: authorization
PStart ==
    /\ pProc.pc \in {"idle", "done"}
    /\ pStarted < MaxPosts
    /\ pStarted' = pStarted + 1
    /\ pSent' = <<>>
    /\ \E user \in {"u1", NoUser}, fileId \in PFileIds :
          \E inv \in {[NoPost EXCEPT !.user = user, !.fileId = fileId]} :
             IF user = NoUser
             THEN pProc' = [inv EXCEPT !.pc = "done", !.status = 401,
                                       !.message = "Not authorized"]
             ELSE pProc' = [inv EXCEPT !.pc = "findAccount"]
    /\ UNCHANGED <<pNow, pTokens, pPosts, fnVars, gVars, rVars, tVars>>

\* const tikTokAccount = await TikTokAccount.findFirst(...); the 404; the
\* comparison of expiresAt with the clock
PFindAccount ==
    /\ pProc.pc = "findAccount"
    /\ \E found \in {FindFirst(tAccounts, pProc.user)} :
          IF found = NoAccount
          THEN PCatch(ThrownError(
                   "TikTok account not connected. Please connect your TikTok account first."))
          ELSE /\ pProc' = [pProc EXCEPT
                      !.account = found,
                      !.accessToken = pTokens[found].accessToken,
                      !.expired = IsExpired(pTokens[found].expiresAt, pNow),
                      !.pc = IF IsExpired(pTokens[found].expiresAt, pNow)
                             THEN "refreshFind" ELSE "findFile"]
               /\ UNCHANGED pPosts
    /\ UNCHANGED <<pNow, pTokens, pSent, pStarted, fnVars, gVars, rVars, tVars>>

\* refreshTikTokToken: await TikTokAccount.findUnique({ where: { id } })
PRefreshFind ==
    /\ pProc.pc = "refreshFind"
    /\ IF \E a \in tAccounts : a.id = pProc.account
       THEN pProc' = [pProc EXCEPT !.pc = "refreshRequest"] /\ UNCHANGED pPosts
       ELSE PCatch(ThrownError("TikTok account not found"))
    /\ UNCHANGED <<pNow, pTokens, pSent, pStarted, fnVars, gVars, rVars, tVars>>

\* refreshTikTokToken: await axios.post(.../oauth/refresh_token/)
PRefreshRequest ==
    /\ pProc.pc = "refreshRequest"
    /\ pSent' = Append(pSent, [url |-> REFRESH_TOKEN_URL, authorization |-> ""])
    /\ \E ok \in BOOLEAN,
          access_token \in PTokens \ {pTokens[pProc.account].accessToken} :
          IF ok
          THEN /\ pProc' = [pProc EXCEPT !.pc = "refreshUpdate",
                                         !.fresh = access_token]
               /\ UNCHANGED pPosts
          ELSE PCatch(AxiosError)
    /\ UNCHANGED <<pNow, pTokens, pStarted, fnVars, gVars, rVars, tVars>>

\* refreshTikTokToken: await TikTokAccount.update({ accessToken, expiresAt });
\* the tikTokAccount object of createTikTokPost is not read again
PRefreshUpdate ==
    /\ pProc.pc = "refreshUpdate"
    /\ \E expires_in \in 1..MaxTime :
          pTokens' = [pTokens EXCEPT ![pProc.account] =
                         [accessToken |-> pProc.fresh,
                          expiresAt |-> pNow + expires_in]]
    /\ pProc' = [pProc EXCEPT !.pc = "findFile"]
    /\ UNCHANGED <<pNow, pPosts, pSent, pStarted, fnVars, gVars, rVars, tVars>>

\* const file = await File.findUnique({ where: { id: fileId } }); the 404
PFindFile ==
    /\ pProc.pc = "findFile"
    /\ IF pProc.fileId \in PFiles
       THEN pProc' = [pProc EXCEPT !.pc = "createPost"] /\ UNCHANGED pPosts
       ELSE PCatch(ThrownError("File not found"))
    /\ UNCHANGED <<pNow, pTokens, pSent, pStarted, fnVars, gVars, rVars, tVars>>

\* const tikTokPost = await TikTokPost.create({ ..., status: 'pending' })
PCreatePost ==
    /\ pProc.pc = "createPost"
    /\ pPosts' = Append(pPosts, Post(pProc.account, "key of " \o pProc.fileId))
    /\ pProc' = [pProc EXCEPT !.pc = "download", !.post = Len(pPosts) + 1]
    /\ UNCHANGED <<pNow, pTokens, pSent, pStarted, fnVars, gVars, rVars, tVars>>

\* await axios.get(file.uploadUrl, ...)
PDownload ==
    /\ pProc.pc = "download"
    /\ pSent' = Append(pSent, [url |-> UPLOAD_URL, authorization |-> ""])
    /\ \E ok \in BOOLEAN :
          IF ok
          THEN pProc' = [pProc EXCEPT !.pc = "init"] /\ UNCHANGED pPosts
          ELSE PCatch(AxiosError)
    /\ UNCHANGED <<pNow, pTokens, pStarted, fnVars, gVars, rVars, tVars>>

\* await axios.post(.../video/init/) and await axios.post(.../video/publish/),
\* both with the access token of the tikTokAccount object
PUpload ==
    /\ pProc.pc \in {"init", "publish"}
    /\ pSent' = Append(pSent,
           Request(IF pProc.pc = "init" THEN VIDEO_INIT_URL ELSE VIDEO_PUBLISH_URL,
                   pProc.accessToken))
    /\ \E ok \in BOOLEAN :
          IF ok
          THEN /\ pProc' = [pProc EXCEPT !.pc =
                      IF pProc.pc = "init" THEN "publish" ELSE "updatePost"]
               /\ UNCHANGED pPosts
          ELSE PCatch(AxiosError)
    /\ UNCHANGED <<pNow, pTokens, pStarted, fnVars, gVars, rVars, tVars>>

\* await TikTokPost.update({ ..., status: 'published' }); return
PUpdatePost ==
    /\ pProc.pc = "updatePost"
    /\ pPosts' = [pPosts EXCEPT ![pProc.post] =
                     [@ EXCEPT !.status = "published", !.tikTokPostId = "video-1"]]
    /\ pProc' = [pProc EXCEPT !.pc = "done", !.status = 200]
    /\ UNCHANGED <<pNow, pTokens, pSent, pStarted, fnVars, gVars, rVars, tVars>>

\* time passes
PTick ==
    /\ pNow < MaxTime
    /\ pNow' = pNow + 1
    /\ UNCHANGED <<pTokens, pPosts, pProc, pSent, pStarted, fnVars, gVars,
                   rVars, tVars>>

\* user u1 has connected an account, whose token expires at some time
InitPost ==
    /\ tAccounts \in {{}, {Account(1, "u1", "o1")}}
    /\ tNextId = Cardinality(tAccounts) + 1
    /\ tStarted = 0 /\ tProc = [p \in TSlots |-> NoInvocation] /\ tIssued = {}
    /\ pNow = 0 /\ pPosts = <<>> /\ pProc = NoPost /\ pSent = <<>>
    /\ pStarted = 0
    /\ pTokens \in {[id \in {a.id : a \in tAccounts} |->
                        [accessToken |-> "token-0", expiresAt |-> expiresAt]]
                    : expiresAt \in 0..MaxTime}
    /\ FnIdle /\ GenIdle /\ RasterIdle

NextPost ==
    \/ PStart \/ PFindAccount \/ PRefreshFind \/ PRefreshRequest
    \/ PRefreshUpdate \/ PFindFile \/ PCreatePost \/ PDownload \/ PUpload
    \/ PUpdatePost \/ PTick

SpecPost == InitPost /\ [][NextPost]_vars

-----------------------------------------------------------------------------
(* Properties                                                                 *)

\* number of entries of log equal to name
LogCount(log, name) == Cardinality({k \in 1..Len(log) : log[k] = name})

\* C1: once the temporary directory of a rasterize invocation exists, it has
\* been removed by the time the invocation terminates, whether it returns or
\* a later step fails.
C1_TempDirRemovedOnEveryExit ==
    (rPc = "done" /\ rTempDir # "none") => rTempDir = "removed"

\* C2: once the browser of a rasterize invocation has been launched, it has
\* been closed by the time the invocation terminates, whether it returns or a
\* step after the launch fails.
C2_BrowserClosedOnEveryExit ==
    (rPc = "done" /\ rBrowser # "none") => rBrowser = "closed"

\* a screenshot fails in convertSvgToGif and the catch block closes the browser
C2_Witness ==
    /\ rRev = "image-processing.ts" /\ rPc = "done" /\ rResult = "thrown"
    /\ rError = HttpError(0, "screenshot failed")
    /\ rFrames > 0 /\ rBrowser = "closed"

\* C3: generateSvgs sanitizes at most once and validates the base markup at
\* most twice; after a failed first validation it has sanitized once and
\* validated once more by the time it terminates; a failed second validation
\* ends it with an error and no variants; animations are injected only after a
\* validation of the base markup has passed.
C3_OneSanitizeOneRevalidation ==
    /\ LogCount(gLog, "sanitizeSvg") <= 1
    /\ LogCount(gLog, "validateSvg") <= 2
    /\ (gPc = "done" /\ gFirst # NoVerdict /\ ~gFirst.isValid)
          => /\ LogCount(gLog, "sanitizeSvg") = 1
             /\ LogCount(gLog, "validateSvg") = 2
             /\ gSecond # NoVerdict
    /\ (gPc = "done" /\ gSecond # NoVerdict /\ ~gSecond.isValid)
          => /\ gResult = "thrown"
             /\ gSvgs = <<>>
    /\ LogCount(gLog, "generateSvgVariations") > 0
          => /\ gFirst.isValid \/ gSecond.isValid
             /\ gLog[Len(gLog) - 1] = "validateSvg"

\* the first validation fails, sanitizing repairs the markup and the variant is
\* returned
C3_Witness ==
    /\ gPc = "done" /\ gResult = "returned" /\ Len(gSvgs) = 1
    /\ gFirst # NoVerdict /\ ~gFirst.isValid /\ gSecond.isValid
    /\ LogCount(gLog, "sanitizeSvg") = 1 /\ LogCount(gLog, "validateSvg") = 2

\* C4: an invocation of generateSvgs / callOpenRouterAPI sends at most one
\* request to the provider, whatever the response and whatever the pipeline
\* does with it.
C4_AtMostOneRequest == Len(gSent) <= 1

\* the provider answers with a non-success status and the invocation ends
\* having sent one request
C4_Witness ==
    /\ gPc = "done" /\ gResult = "thrown"
    /\ gResp.kind = "response" /\ ~gResp.ok
    /\ Len(gSent) = 1

\* C7: without a configured credential no request is sent and the invocation
\* fails with 'OpenRouter API key is not configured'.
C7_NoKeyNoRequest ==
    ~gKey => /\ gSent = <<>>
             /\ gPc = "done" => /\ gResult = "thrown"
                                /\ gError.message = KEY_NOT_CONFIGURED

\* the invocation without a credential has terminated
C7_Witness ==
    ~gKey /\ gPc = "done" /\ gResult = "thrown" /\ gSent = <<>>

\* C8: after a non-success response the invocation fails with an error whose
\* message carries the provider's message (the status text when the provider
\* gave none), and no pipeline stage has run.
C8_UpstreamMessageCarried ==
    (gPc = "done" /\ gResp.kind = "response" /\ ~gResp.ok)
        => /\ gResult = "thrown"
           /\ includes(gError.message,
                       IF gResp.message # "" THEN gResp.message
                       ELSE gResp.statusText)
           /\ gLog = <<>>

\* C5: when validateSvg reports the input of a rasterize invocation invalid,
\* no temporary directory is created, no file written and no browser launched,
\* and the invocation ends with an error.
C5_FailsFastOnInvalidInput ==
    ~validateSvg(rSvg).isValid
        => /\ rTempDir = "none" /\ rWritten = <<>> /\ rBrowser = "none"
           /\ rPc = "done" => rResult = "thrown"

\* C6: the markup a rasterize invocation writes to its temporary files and
\* loads into the browser is sanitizeSvg of its input.
C6_RendersSanitizedMarkup ==
    /\ \A k \in 1..Len(rWritten) :
          rWritten[k].file # "output.gif" => rWritten[k].markup = sanitizeSvg(rSvg)
    /\ \A k \in 1..Len(rLoaded) : rLoaded[k] = sanitizeSvg(rSvg)

\* C9: for an input without '</svg>', autoFixSvg returns a string with exactly
\* one '</svg>', at its very end.
C9_ExactlyOneClosingTag ==
    (called /\ fn = "autoFixSvg" /\ ~includes(arg, "</svg>"))
        => count(ret, "</svg>") = 1 /\ endsWith(ret, "</svg>")

\* C10: for every input autoFixSvg returns a string that starts with '<svg'
\* and ends with '</svg>'.
C10_RootTagsAtBothEnds ==
    (called /\ fn = "autoFixSvg")
        => startsWith(ret, "<svg") /\ endsWith(ret, "</svg>")

\* markup with upper-case tag names has been normalized
C10_Witness ==
    /\ called /\ fn = "autoFixSvg" /\ arg = "<SVG></SVG>"
    /\ startsWith(ret, "<svg") /\ endsWith(ret, "</svg>")

\* C11: for an input that contains '<svg', validateSvg of the result of
\* autoFixSvg never reports 'Missing <svg> tag'.
C11_NormalizedHasOpenTag ==
    (fn = "autoFixSvg, validateSvg" /\ includes(arg, "<svg"))
        => ret2.error # "Missing <svg> tag"

\* the closing tag cuts the only lower-case opening tag off and the wrapper
\* supplies a new one
C11_Witness ==
    /\ fn = "autoFixSvg, validateSvg" /\ arg = "<SVG</svg><svg"
    /\ ~includes(substring(ret, 4, Len(ret) - 6), "<svg")
    /\ ret2.error # "Missing <svg> tag"

\* C15: validateSvg checks the given string in the order empty, '<svg'
\* present, '</svg>' present, structure from opening to closing tag, exact
\* namespace attribute present, and returns the verdict of the first check
\* that fails; it reports valid only when all five pass.
C15_ChecksGivenStringInOrder ==
    (fn = "validateSvg" /\ called)
        => ret = (IF arg = "" THEN Verdict(FALSE, "SVG content is empty")
                  ELSE IF ~includes(arg, "<svg")
                      THEN Verdict(FALSE, "Missing <svg> tag")
                  ELSE IF ~includes(arg, "</svg>")
                      THEN Verdict(FALSE, "Missing closing </svg> tag")
                  ELSE IF ~basicStructure(arg)
                      THEN Verdict(FALSE, "Invalid SVG structure")
                  ELSE IF ~includes(arg, XMLNS)
                      THEN Verdict(FALSE, "Missing xmlns attribute")
                  ELSE Verdict(TRUE, ""))

\* C12: for an input that contains the namespace attribute, a viewBox and
\* width and height attributes, sanitizeSvg of the result of sanitizeSvg is
\* that result.
C12_SanitizeIdempotent ==
    (/\ fn = "sanitizeSvg, sanitizeSvg"
     /\ includes(arg, XMLNS) /\ includes(arg, "viewBox")
     /\ includes(arg, "width=") /\ includes(arg, "height="))
        => ret2 = ret

\* a span of s that starts with '<script' and ends with '</script>'
HasScriptSpan(s) ==
    \E i \in 0..Len(s) :
        occursAtCI(s, "<script", i) /\ indexOfFromCI(s, "</script>", i + 7) >= 0

\* C13: the result of one call of sanitizeSvg holds no span that starts with
\* '<script' and ends with '</script>'.
C13_NoScriptElementLeft ==
    (fn = "sanitizeSvg" /\ called) => ~HasScriptSpan(ret)

\* C14: for an input that contains '<svg', the result of sanitizeSvg carries
\* the namespace attribute, a viewBox, a width and a height.
C14_AllAttributesPresent ==
    (fn = "sanitizeSvg" /\ called /\ includes(arg, "<svg"))
        => /\ includes(ret, XMLNS) /\ includes(ret, "viewBox")
           /\ includes(ret, "width=") /\ includes(ret, "height=")

\* the first of two elements that start with open has received preset, and
\* the text after the inserted preset holds the second element and no other
\* copy of preset
OnlyFirstAnimated(before, after, open, preset) ==
    count(before, open) = 2
        => /\ count(after, preset) = 1
           /\ indexOf(after, open \o ">" \o preset) >= 0
           /\ indexOf(after, open \o ">" \o preset) = indexOf(after, open)
           /\ count(substring(after, indexOf(after, preset), Len(after)), open) = 1

\* C16: in a workflow document with two paths, two circles, two text
\* elements or two highlight groups, generateSvgVariations inserts the
\* animation of that kind at the first of the two and nowhere else.
C16_OnlyFirstOccurrenceAnimated ==
    (fn = "generateSvgVariations" /\ called /\ arg.type = "workflow")
        => /\ OnlyFirstAnimated(arg.baseSvg, ret[1], "<path", WORKFLOW_FLOW)
           /\ OnlyFirstAnimated(arg.baseSvg, ret[1], "<circle", WORKFLOW_PULSE)
           /\ OnlyFirstAnimated(arg.baseSvg, ret[1], "<text", WORKFLOW_FADEIN)
           /\ OnlyFirstAnimated(arg.baseSvg, ret[1], "<g class=\"highlight\"",
                                WORKFLOW_HIGHLIGHT)

\* C18: a generateSvgs invocation that returns has exactly one variant, and
\* the variant contains xmlns="http://www.w3.org/2000/svg".
C18_OneNamespacedVariant ==
    (gRev \in PipelineRevs /\ gResult = "returned")
        => Len(gSvgs) = 1 /\ includes(gSvgs[1], XMLNS)

\* markup without the namespace attribute went through sanitizeSvg and the
\* variant made from it is returned
C18_Witness ==
    /\ gRev \in PipelineRevs /\ gResult = "returned"
    /\ ~includes(gResp.content, XMLNS)
    /\ LogCount(gLog, "sanitizeSvg") = 1
    /\ Len(gSvgs) = 1 /\ includes(gSvgs[1], XMLNS)

\* C19: a generateSvgs invocation of type workflow that returns has a variant
\* that contains at least one of the workflow animation presets.
C19_WorkflowVariantAnimated ==
    (gRev \in PipelineRevs /\ gType = "workflow" /\ gResult = "returned")
        => \E preset \in {WORKFLOW_FLOW, WORKFLOW_PULSE, WORKFLOW_HIGHLIGHT,
                          WORKFLOW_FADEIN} :
               includes(gSvgs[1], preset)

\* a '<' of s after which the next '<' comes before any '>', or no '>' comes
HasDanglingTag(s) ==
    \E i \in 0..(Len(s) - 1) :
        /\ charAt(s, i) = "<"
        /\ \/ \A j \in (i + 1)..(Len(s) - 1) : charAt(s, j) # ">"
           \/ \E k \in (i + 1)..(Len(s) - 1) :
                 /\ charAt(s, k) = "<"
                 /\ \A j \in (i + 1)..(k - 1) : charAt(s, j) # ">"

\* C17: for an input cut before any closing tag, inside a child element,
\* autoFixSvg of the result of fixTruncatedSvg ends with '</svg>' and has no
\* child tag left open.
C17_RepairedHasNoDanglingTag ==
    (/\ fn = "fixTruncatedSvg, autoFixSvg"
     /\ ~includes(arg, "</") /\ HasDanglingTag(arg))
        => endsWith(ret2, "</svg>") /\ ~HasDanglingTag(ret2)

\* C20: whatever connectTikTokAccount and disconnectTikTokAccount
\* invocations have run or are running, the table holds at most one
\* TikTokAccount record per user.
C20_OneAccountPerUser ==
    \A u \in TUsers : Cardinality({a \in tAccounts : a.userId = u}) <= 1

\* two connects of one user have both found no record; one has created the
\* record and the other has been rejected
C20_Witness ==
    /\ tProc["a"].op = "connect" /\ tProc["b"].op = "connect"
    /\ tProc["a"].user = tProc["b"].user
    /\ tProc["a"].found = NoAccount /\ tProc["b"].found = NoAccount
    /\ tProc["a"].pc = "done" /\ tProc["b"].pc = "done"
    /\ tProc["a"].status = 200 /\ tProc["b"].status = 500
    /\ Cardinality({a \in tAccounts : a.userId = tProc["a"].user}) = 1

\* the closing tags fixTruncatedSvg looks for
ChildClosingTags == {"</g>", "</path>", "</rect>", "</circle>", "</text>"}

\* the position just after the last closing tag of s, whichever tag it is
EndOfLastClosingTag(s) ==
    LET last == CHOOSE t \in ChildClosingTags :
                    \A u \in ChildClosingTags : lastIndexOf(s, u) <= lastIndexOf(s, t)
    IN  lastIndexOf(s, last) + Len(last)

\* C21: for an input that does not end with '</svg>' and holds one of the
\* closing tags '</g>', '</path>', '</rect>', '</circle>', '</text>',
\* fixTruncatedSvg returns the input up to and including the last of them,
\* followed by '</g></svg>'.
C21_CutAfterLastClosingTag ==
    (/\ fn = "fixTruncatedSvg" /\ called
     /\ ~endsWith(trim(arg), "</svg>")
     /\ \E t \in ChildClosingTags : includes(arg, t))
        => ret = substring(arg, 0, EndOfLastClosingTag(arg)) \o "</g></svg>"

\* C22: an invocation of a revision that captures the animation returns an
\* image encoded from all five captured frames.
C22_AllFramesEncoded ==
    (rRev \in {"image-processing.ts", "part_001"} /\ rResult = "returned")
        => rFrames = FRAMES_ANIMATED /\ rEncoded = rFrames

\* C23: a videoElement document with a group of class rotate (scale) or a
\* path of class morph receives the rotate (scale, morph) fragment after the
\* opening of that element, and a workflow document with a group of class
\* highlight receives the highlight fragment.
C23_ClassTargetsAnimated ==
    (fn = "generateSvgVariations" /\ called)
        => IF arg.type = "videoElement"
           THEN /\ includes(arg.baseSvg, "<g class=\"rotate\"")
                      => includes(ret[1], "<g class=\"rotate\">" \o VIDEO_ROTATE)
                /\ includes(arg.baseSvg, "<g class=\"scale\"")
                      => includes(ret[1], "<g class=\"scale\">" \o VIDEO_SCALE)
                /\ includes(arg.baseSvg, "<path class=\"morph\"")
                      => includes(ret[1], "<path class=\"morph\"") /\ includes(ret[1], VIDEO_MORPH)
           ELSE includes(arg.baseSvg, "<g class=\"highlight\"")
                    => includes(ret[1], "<g class=\"highlight\">" \o WORKFLOW_HIGHLIGHT)

\* C24: every request sent carries as its model the identifier that MODEL_MAP
\* gives to one of its three selectors.
C24_RequestsCarryMappedModel ==
    \A k \in 1..Len(gSent) :
        gSent[k].model \in {MODEL_MAP("deepseek"), MODEL_MAP("claude"), MODEL_MAP("openai")}

\* C26: disconnectTikTokAccount of an authenticated user without a connected
\* account ends with status 404 and the message 'TikTok account not found',
\* and deletes no record.
C26_NotFoundReachesCaller ==
    \A p \in TSlots :
        (/\ tProc[p].op = "disconnect" /\ tProc[p].pc = "done"
         /\ tProc[p].user # NoUser /\ tProc[p].found = NoAccount)
            => tProc[p].status = 404 /\ tProc[p].message = "TikTok account not found"

\* C27: for a non-empty input validateSvg reports valid, 'Invalid SVG
\* structure' or 'Missing xmlns attribute', never 'Missing <svg> tag' or
\* 'Missing closing </svg> tag'.
C27_PresenceChecksNeverFail ==
    (fn = "validateSvg" /\ called /\ arg # "")
        => \/ ret = Verdict(TRUE, "")
           \/ /\ ~ret.isValid
              /\ ret.error \in {"Invalid SVG structure", "Missing xmlns attribute"}

\* text without any tag is validated after being wrapped in a root element
C27_Witness ==
    /\ fn = "validateSvg" /\ called /\ arg = "hello"
    /\ ~includes(arg, "<svg") /\ ~includes(arg, "</svg>")
    /\ ret.error \notin {"Missing <svg> tag", "Missing closing </svg> tag"}

\* C28: autoFixSvg applied to its own result returns that result.
C28_AutoFixIdempotent ==
    fn = "autoFixSvg, autoFixSvg" => ret2 = ret

\* C30: an invocation of connectTikTokAccount goes on to the token exchange,
\* and to the account table, only with a state that getTikTokAuthUrl returned.
C30_OnlyIssuedStateExchanged ==
    \A p \in TSlots :
        (/\ tProc[p].op = "connect"
         /\ \/ tProc[p].pc \in {"exchange", "userInfo", "find", "write"}
            \/ tProc[p].pc = "done" /\ tProc[p].status = 200)
            => tProc[p].state \in tIssued

\* C25: once an invocation of createTikTokPost has terminated, no TikTokPost
\* record is left with status 'pending': a failure after the record was
\* created marks it 'failed' with an error message.
C25_NoPostLeftPending ==
    pProc.pc = "done"
        => \A k \in 1..Len(pPosts) :
              /\ pPosts[k].status # "pending"
              /\ pPosts[k].status = "failed" => pPosts[k].errorMessage # ""

\* C29: an invocation of createTikTokPost that found the stored token expired
\* sends none of its upload-init and publish requests with that token.
C29_NoRequestWithExpiredToken ==
    pProc.expired
        => \A k \in 1..Len(pSent) :
              pSent[k].url \in {VIDEO_INIT_URL, VIDEO_PUBLISH_URL}
                  => pSent[k].authorization # "Bearer " \o pProc.accessToken

====
